---- MODULE Spec2Model ----
(***************************************************************************)
(* The three-stage pipeline of function.go: receive (HTTP webhook ->       *)
(* to-process topic), process (to-process -> secret, image download,       *)
(* classification -> to-send topic) and send (to-send -> reply endpoint).  *)
(*                                                                         *)
(* Go strings and byte slices are sequences of characters (a fixed literal *)
(* of the program is kept as one piece).                                   *)
(* A JSON document (the bytes on the wire) is the tree its text parses to, *)
(* or Invalid for bytes that are not JSON; json.Marshal builds the tree    *)
(* from a struct and json.Unmarshal fills a struct from the tree, with     *)
(* Go's defaults (absent or null field: zero value; wrong type: error).    *)
(***************************************************************************)
EXTENDS Integers, Sequences, FiniteSets, TLC

VARIABLES toProcess, toSend, replyCalls, recv, proc, snd

vars == <<toProcess, toSend, replyCalls, recv, proc, snd>>

(***************************************************************************)
(* Bounds of the model.                                                    *)
(***************************************************************************)
MaxRecv == 1
MaxProc == 2
MaxSend == 1
MaxEvents == 3
MaxLabels == 2
MaxRedeliver == 1

RecvIds == 1..MaxRecv
\* receive invocations in flight at the same time
MaxConcurrent == 2
ConcIds == 1..MaxConcurrent
ProcIds == 1..MaxProc
SendIds == 1..MaxSend

(***************************************************************************)
(* Strings used as inputs.                                                 *)
(***************************************************************************)
EmptyStr == <<>>
R1 == <<"r", "1">>
R2 == <<"r", "2">>
I1 == <<"i", "1">>
I2 == <<"i", "2">>
TK1 == <<"k", "1">>
TK2 == <<"k", "2">>
IMG1 == <<"P", "N", "G">>
ERRPAGE == <<"4", "0", "4">>
CAT == <<"c", "a", "t">>
OUTDOOR == <<"o", "u", "t", "d", "o", "o", "r">>
NL == "\n"

(***************************************************************************)
(* JSON documents.                                                         *)
(***************************************************************************)
JStr(s) == [t |-> "str", s |-> s]
JNum(n) == [t |-> "num", n |-> n]
JArr(a) == [t |-> "arr", a |-> a]
JObj(f) == [t |-> "obj", f |-> f]
JNull == [t |-> "null"]
Invalid == [t |-> "invalid"]

HasKey(v, k) == v.t = "obj" /\ k \in DOMAIN v.f

\* error values: Nil is Go's nil error, anything else is the error's text
Nil == "nil"
ErrSyntax == "invalid character"
ErrType == "json: cannot unmarshal"
ErrEOF == "unexpected end of JSON input"

\* json.Unmarshal of one value into a string field whose current value is cur
decodeString(v, cur) ==
    CASE v.t = "str" -> [err |-> Nil, s |-> v.s]
      [] v.t = "null" -> [err |-> Nil, s |-> cur]
      [] OTHER -> [err |-> ErrType, s |-> cur]

\* the value under key k of object v, or JNull (which leaves a field alone)
fieldOf(v, k) == IF HasKey(v, k) THEN v.f[k] ELSE JNull

\* the strings a JSON document holds
RECURSIVE JsonStrings(_)
JsonStrings(v) ==
    CASE v.t = "str" -> {v.s}
      [] v.t = "arr" -> UNION {JsonStrings(v.a[k]) : k \in 1..Len(v.a)}
      [] v.t = "obj" -> UNION {JsonStrings(v.f[k]) : k \in DOMAIN v.f}
      [] OTHER -> {}

\* log.Printf(format, args...): one entry of the log, with the strings it prints
LogEntry(format, args) == [format |-> format, args |-> args]

(***************************************************************************)
(* Structs of the program.                                                 *)
(***************************************************************************)
lineEventMessage(id) == [ID |-> id]
lineEvent(replyToken, message) == [ReplyToken |-> replyToken, LineEventMessage |-> message]
lineWebHook(events) == [Events |-> events]
processMessage(imageID, replyToken) == [ImageID |-> imageID, ReplyToken |-> replyToken]
\* a []string: Go distinguishes the nil slice from the empty one
NilSlice == [nil |-> TRUE, elems |-> <<>>]
Slice(elems) == [nil |-> FALSE, elems |-> elems]
sendMessage(replyToken, labels) == [ReplyToken |-> replyToken, Labels |-> labels]

\* json.Unmarshal into lineEventMessage
decodeLineEventMessage(v) ==
    CASE v.t = "null" -> [err |-> Nil, val |-> lineEventMessage(EmptyStr)]
      [] v.t = "obj" ->
           LET id == decodeString(fieldOf(v, "id"), EmptyStr)
           IN  [err |-> id.err, val |-> lineEventMessage(id.s)]
      [] OTHER -> [err |-> ErrType, val |-> lineEventMessage(EmptyStr)]

\* json.Unmarshal into lineEvent
decodeLineEvent(v) ==
    CASE v.t = "null" -> [err |-> Nil, val |-> lineEvent(EmptyStr, lineEventMessage(EmptyStr))]
      [] v.t = "obj" ->
           LET rt == decodeString(fieldOf(v, "replyToken"), EmptyStr)
               m == decodeLineEventMessage(fieldOf(v, "message"))
           IN  [err |-> IF rt.err # Nil THEN rt.err ELSE m.err,
                val |-> lineEvent(rt.s, m.val)]
      [] OTHER -> [err |-> ErrType, val |-> lineEvent(EmptyStr, lineEventMessage(EmptyStr))]

\* the first error of a sequence of decode results, Nil when there is none
RECURSIVE firstErr(_)
firstErr(rs) ==
    IF rs = <<>> THEN Nil
    ELSE IF Head(rs).err # Nil THEN Head(rs).err ELSE firstErr(Tail(rs))

\* json.Unmarshal of a valid JSON document into lineWebHook
decodeWebHook(body) ==
    CASE body.t = "null" -> [err |-> Nil, val |-> lineWebHook(<<>>)]
      [] body.t = "obj" ->
           LET ev == fieldOf(body, "events")
           IN  CASE ev.t = "null" -> [err |-> Nil, val |-> lineWebHook(<<>>)]
                 [] ev.t = "arr" ->
                      LET rs == [k \in 1..Len(ev.a) |-> decodeLineEvent(ev.a[k])]
                      IN  [err |-> firstErr(rs),
                           val |-> lineWebHook([k \in 1..Len(ev.a) |-> rs[k].val])]
                 [] OTHER -> [err |-> ErrType, val |-> lineWebHook(<<>>)]
      [] OTHER -> [err |-> ErrType, val |-> lineWebHook(<<>>)]

\* faulty variant: the syntax error is dropped and the zero value is used
unmarshalWebHookLenient(body) ==
    IF body.t = "invalid" THEN [err |-> Nil, val |-> lineWebHook(<<>>)]
    ELSE decodeWebHook(body)

\* json.Unmarshal(reqBody, &lineWebHook): the syntax is checked before anything is stored
unmarshalWebHook(body) ==
    IF body.t = "invalid" THEN [err |-> ErrSyntax, val |-> lineWebHook(<<>>)]
    ELSE decodeWebHook(body)

\* faulty variant: the two fields are exchanged
newProcessMessageSwapped(evt) == processMessage(evt.ReplyToken, evt.LineEventMessage.ID)

\* processMessage{ImageID: evt.LineEventMessage.ID, ReplyToken: evt.ReplyToken}
newProcessMessage(evt) == processMessage(evt.LineEventMessage.ID, evt.ReplyToken)

\* json.Marshal(processMessage): the fields have no tags, the keys are their names
marshalProcessMessage(msg) ==
    JObj([ImageID |-> JStr(msg.ImageID), ReplyToken |-> JStr(msg.ReplyToken)])

\* json.Unmarshal(data, &procMsg)
unmarshalProcessMessage(data) ==
    CASE data.t = "invalid" -> [err |-> ErrSyntax, val |-> processMessage(EmptyStr, EmptyStr)]
      [] data.t = "empty" -> [err |-> ErrEOF, val |-> processMessage(EmptyStr, EmptyStr)]
      [] data.t = "null" -> [err |-> Nil, val |-> processMessage(EmptyStr, EmptyStr)]
      [] data.t = "obj" ->
           LET id == decodeString(fieldOf(data, "ImageID"), EmptyStr)
               rt == decodeString(fieldOf(data, "ReplyToken"), EmptyStr)
           IN  [err |-> IF id.err # Nil THEN id.err ELSE rt.err,
                val |-> processMessage(id.s, rt.s)]
      [] OTHER -> [err |-> ErrType, val |-> processMessage(EmptyStr, EmptyStr)]

(***************************************************************************)
(* The broker: topic.Publish followed by result.Get.                       *)
(***************************************************************************)
PublishOutcomes == {"ack", "fail"}
ErrPublish == "publish failed"
ErrNewClient == "pubsub.NewClient failed"
ErrReadBody == "read body failed"

\* faulty variant: the error of result.Get is dropped
resultGetIgnored(o) == Nil

\* id, err := result.Get(ctx): the error of a publish whose outcome is o
resultGet(o) == IF o = "ack" THEN Nil ELSE ErrPublish

(***************************************************************************)
(* receive                                                                 *)
(***************************************************************************)
\* the response written by returnError(w, code, err)
returnError(r, code, err) ==
    [r EXCEPT !.pc = "done", !.code = code, !.respBody = err,
              !.log = Append(@, LogEntry("error: %v", {}))]

StatusOK == 200
StatusInternalServerError == 500

RecvIdle ==
    [pc |-> "idle", body |-> JNull, clientOK |-> TRUE, events |-> <<>>, k |-> 0,
     issued |-> <<>>, code |-> 0, respBody |-> "", past |-> <<>>, log |-> <<>>]

\* receive up to the publish loop: dump and read the body, decode it, build the client
receiveBegin(r, body, clientOK) ==
    LET r0 == [r EXCEPT !.body = body, !.clientOK = clientOK,
                        !.log = Append(@, LogEntry("receive", {}))]
        r1 == [r0 EXCEPT !.log = Append(@, LogEntry("request: %s", JsonStrings(body)))]
        hook == unmarshalWebHook(body)
    IN  IF body.t = "unreadable" THEN returnError(r0, StatusInternalServerError, ErrReadBody)
        ELSE IF hook.err # Nil THEN returnError(r1, StatusInternalServerError, hook.err)
        ELSE IF ~clientOK THEN returnError(r1, StatusInternalServerError, ErrNewClient)
        ELSE [r1 EXCEPT !.pc = "loop", !.events = hook.val.Events]

\* faulty variant: a failed publish is answered but the loop goes on
receivePublishedNoAbort(r, data, o, pos) ==
    LET r1 == [r EXCEPT !.issued = Append(@, [data |-> data, outcome |-> o, pos |-> pos])]
    IN  IF resultGet(o) # Nil
        THEN [r1 EXCEPT !.k = @ + 1, !.code = StatusInternalServerError,
                        !.respBody = resultGet(o)]
        ELSE [r1 EXCEPT !.k = @ + 1, !.log = Append(@, LogEntry("publish: %s", {}))]

\* one iteration of the loop over lineWebHook.Events, after result.Get returned;
\* pos is the place the broker gave the message on the topic (0: not accepted)
receivePublished(r, data, o, pos) ==
    LET r1 == [r EXCEPT !.issued = Append(@, [data |-> data, outcome |-> o, pos |-> pos])]
    IN  IF resultGet(o) # Nil
        THEN returnError(r1, StatusInternalServerError, resultGet(o))
        ELSE [r1 EXCEPT !.k = @ + 1, !.log = Append(@, LogEntry("publish: %s", {}))]

\* after the loop: w.WriteHeader(http.StatusOK); w.Write([]byte("receive"))
receiveEnd(r) == [r EXCEPT !.pc = "done", !.code = StatusOK, !.respBody = "receive"]

\* faulty variant: the new attempt goes on after the events acknowledged so far
receiveAgainResumed(r, clientOK) ==
    LET r1 == receiveBegin([RecvIdle EXCEPT !.past = Append(r.past, r.issued)],
                           r.body, clientOK)
    IN  IF r1.pc = "loop" THEN [r1 EXCEPT !.k = r.k] ELSE r1

\* receive invoked again with the request of an earlier invocation r: every
\* local of the function is new; past keeps what the earlier attempts issued
receiveAgain(r, clientOK) ==
    receiveBegin([RecvIdle EXCEPT !.past = Append(r.past, r.issued)], r.body, clientOK)

(***************************************************************************)
(* Webhook bodies the platform (or anyone else) may post.                  *)
(***************************************************************************)
EventJSON(rt, id) == JObj([replyToken |-> JStr(rt), message |-> JObj([id |-> JStr(id)])])
WellFormedEvents == {EventJSON(R1, I1), EventJSON(R2, I2)}
\* valid JSON, but a field is missing or has the wrong type
OddEvents == {JObj([message |-> JObj([id |-> JStr(I1)])]),
              JObj([replyToken |-> JNum(7), message |-> JObj([id |-> JStr(I1)])])}

SeqsUpTo(S, n) == UNION {[1..m -> S] : m \in 0..n}

WellFormedBodies == {JObj([events |-> JArr(es)]) : es \in SeqsUpTo(WellFormedEvents, MaxEvents)}
OddBodies == {JObj([events |-> JArr(<<e>>)]) : e \in OddEvents}
             \cup {JObj([events |-> JArr(<<EventJSON(R1, I1), e>>)]) : e \in OddEvents}
             \cup {JObj(<<>>), JNull, JArr(<<>>)}
Bodies == WellFormedBodies \cup OddBodies \cup {Invalid, [t |-> "unreadable"]}

(***************************************************************************)
(* Broker deliveries: the event a subscriber function is invoked with.     *)
(* Its data decodes into messagePublishedData{Message{Data}}.              *)
(***************************************************************************)
CloudEvent(data) == [t |-> "event", data |-> data]
\* an event whose data is not a messagePublishedData document
BadEvent == [t |-> "invalid"]
\* an event whose message carries no data
EmptyEvent == [t |-> "nodata"]
NoBytes == [t |-> "empty"]

\* the strings the event prints with %v
EventStrings(evt) == IF evt.t = "event" THEN JsonStrings(evt.data) ELSE {}

ErrDataAs == "event.Event.DataAs failed"
ErrUnmarshal == "json.Unmarshal failed"

\* evt.DataAs(&subMsg), then subMsg.Message.Data
DataAs(evt) ==
    CASE evt.t = "invalid" -> [err |-> ErrDataAs, data |-> NoBytes]
      [] evt.t = "nodata" -> [err |-> Nil, data |-> NoBytes]
      [] OTHER -> [err |-> Nil, data |-> evt.data]

(***************************************************************************)
(* getSecret                                                               *)
(***************************************************************************)
SecretName == <<"channel-access-token">>
ProjectID == <<"PROJECT_ID">>
ErrSecretClient == "secretmanager.NewClient failed"
ErrSecretAccess == "secretmanager.Client.AccessSecretVersion failed"

\* what the credential store answers: no client, access refused, or the payload
SecretOutcomes ==
    {[client |-> FALSE, ok |-> FALSE, data |-> EmptyStr],
     [client |-> TRUE, ok |-> FALSE, data |-> EmptyStr],
     [client |-> TRUE, ok |-> TRUE, data |-> TK1],
     [client |-> TRUE, ok |-> TRUE, data |-> TK2]}

\* faulty variant: a value kept from an earlier invocation is returned, whatever
\* the credential store answers now
getSecretCached(projectID, secretName, x) ==
    [err |-> Nil, val |-> TK1,
     name |-> <<"projects/">> \o projectID \o <<"/secrets/">> \o secretName
              \o <<"/versions/latest">>]

getSecret(projectID, secretName, x) ==
    LET name == <<"projects/">> \o projectID \o <<"/secrets/">> \o secretName
                \o <<"/versions/latest">>
    IN  IF ~x.client THEN [err |-> ErrSecretClient, val |-> EmptyStr, name |-> name]
        ELSE IF ~x.ok THEN [err |-> ErrSecretAccess, val |-> EmptyStr, name |-> name]
        ELSE [err |-> Nil, val |-> x.data, name |-> name]

(***************************************************************************)
(* downloadImage                                                           *)
(***************************************************************************)
\* an io.Reader: the nil interface value, or a reader over bytes
NilReader == [nil |-> TRUE, bytes |-> <<>>]
Reader(bytes) == [nil |-> FALSE, bytes |-> bytes]

Bearer(token) == <<"Bearer ">> \o token

\* http.NewRequest(method, url, body): a nil body leaves req.Body nil
NewRequest(method, url, body) == [Method |-> method, URL |-> url, Header |-> <<>>, Body |-> body]

\* io.ReadAll(r): calling Read on the nil interface value panics
ReadAll(r) == IF r.nil THEN [panic |-> TRUE, bytes |-> <<>>] ELSE [panic |-> FALSE, bytes |-> r.bytes]

ErrHTTPDo == "http.DefaultClient.Get failed"
Panic == "panic: nil pointer dereference"

\* what the image content endpoint answers: no response, or a status and a body
ImageHttp ==
    {[ok |-> FALSE, status |-> 0, body |-> <<>>],
     [ok |-> TRUE, status |-> 200, body |-> IMG1],
     [ok |-> TRUE, status |-> 404, body |-> ERRPAGE]}

\* downloadImage, given the outcome x of http.DefaultClient.Do(req)
downloadImage(channelAccessToken, imageID, x) ==
    LET url == <<"https://api-data.line.me/v2/bot/message/">> \o imageID \o <<"/content">>
        req0 == NewRequest("GET", url, NilReader)
        req == [req0 EXCEPT !.Header = [Authorization |-> Bearer(channelAccessToken)]]
        resp == [StatusCode |-> x.status, Body |-> Reader(x.body)]
        respBytes == ReadAll(req.Body)
    IN  IF ~x.ok THEN [panic |-> FALSE, err |-> ErrHTTPDo, bytes |-> <<>>, req |-> req]
        ELSE IF respBytes.panic THEN [panic |-> TRUE, err |-> Panic, bytes |-> <<>>, req |-> req]
        ELSE [panic |-> FALSE, err |-> Nil, bytes |-> respBytes.bytes, req |-> req]

(***************************************************************************)
(* analyzeImage                                                            *)
(***************************************************************************)
MaxResults == 10
ErrVisionClient == "vision.NewImageAnnotatorClient failed"
ErrVisionImage == "vision.NewImageFromReader failed"
ErrVisionDetect == "vision.ImageAnnotatorClient.DetectLabels failed"

Descriptions == {CAT, OUTDOOR, EmptyStr}
LabelLists == SeqsUpTo(Descriptions, IF MaxLabels < MaxResults THEN MaxLabels ELSE MaxResults)

\* what the classification service answers for the image: an error or its labels
VisionOutcomes ==
    {[err |-> e, labels |-> <<>>] : e \in {ErrVisionClient, ErrVisionImage, ErrVisionDetect}}
    \cup {[err |-> Nil, labels |-> [k \in 1..Len(ls) |-> [Description |-> ls[k]]]] :
             ls \in LabelLists}

\* results := []string{}; for each label: results = append(results, label.Description)
RECURSIVE appendDescriptions(_, _)
appendDescriptions(results, labels) ==
    IF labels = <<>> THEN results
    ELSE appendDescriptions(Append(results, Head(labels).Description), Tail(labels))

analyzeImage(imageBytes, x) ==
    IF x.err # Nil THEN [err |-> x.err, labels |-> NilSlice]
    ELSE [err |-> Nil, labels |-> Slice(appendDescriptions(<<>>, x.labels))]

(***************************************************************************)
(* process                                                                 *)
(***************************************************************************)
\* faulty variant: an empty slice is written as null, like a nil one
marshalSendMessageEmptyAsNull(msg) ==
    JObj([ReplyToken |-> JStr(msg.ReplyToken),
          Labels |-> IF msg.Labels.elems = <<>> THEN JNull
                     ELSE JArr([k \in 1..Len(msg.Labels.elems) |-> JStr(msg.Labels.elems[k])])])

\* json.Marshal(sendMessage): a nil slice is written as null
marshalSendMessage(msg) ==
    JObj([ReplyToken |-> JStr(msg.ReplyToken),
          Labels |-> IF msg.Labels.nil THEN JNull
                     ELSE JArr([k \in 1..Len(msg.Labels.elems) |-> JStr(msg.Labels.elems[k])])])

ErrEmpty == ""
Running == "running"

ProcIdle ==
    [pc |-> "idle", evt |-> BadEvent, src |-> 0, msg |-> processMessage(EmptyStr, EmptyStr),
     token |-> EmptyStr, http |-> [ok |-> FALSE, status |-> 0, body |-> <<>>],
     image |-> <<>>, vision |-> <<>>, labels |-> NilSlice,
     steps |-> <<>>, answers |-> <<>>, failed |-> "", published |-> <<>>,
     result |-> Running, fetched |-> <<>>, auth |-> <<>>, log |-> <<>>]

\* faulty variant: the error is noted and the failed step is made again
procReturnRetry(p, step, err) == [p EXCEPT !.failed = step]

\* return err
procReturn(p, step, err) == [p EXCEPT !.pc = "done", !.failed = step, !.result = err]

\* process up to the first external call: decode the event and its payload
processBegin(p, evt, src) ==
    LET p1 == [p EXCEPT !.evt = evt, !.src = src, !.steps = <<"decode">>,
                        !.log = <<LogEntry("process", {}),
                                  LogEntry("request: %v", EventStrings(evt))>>]
        sub == DataAs(evt)
        m == unmarshalProcessMessage(sub.data)
    IN  IF sub.err # Nil THEN procReturn(p1, "decode", ErrDataAs)
        ELSE IF m.err # Nil THEN procReturn(p1, "decode", ErrUnmarshal)
        ELSE [p1 EXCEPT !.pc = "secret", !.msg = m.val,
                        !.log = @ \o <<LogEntry("image ID: %s", {m.val.ImageID}),
                                       LogEntry("reply token: %s", {m.val.ReplyToken})>>]

\* what the broker answers to the publish of process: no client, or the outcome
ProcPublishOutcomes ==
    {[client |-> FALSE, o |-> "fail"], [client |-> TRUE, o |-> "ack"],
     [client |-> TRUE, o |-> "fail"]}

\* the answers the next external call of process may get
ProcExt(pc) ==
    CASE pc = "secret" -> SecretOutcomes
      [] pc = "fetch" -> ImageHttp
      [] pc = "classify" -> VisionOutcomes
      [] pc = "publish" -> ProcPublishOutcomes
      [] OTHER -> {}

\* whether the answer x to the external call made at pc is a success of the service
Answered(pc, x) ==
    CASE pc = "secret" -> x.client /\ x.ok
      [] pc = "fetch" -> x.ok /\ x.status \in 200..299
      [] pc = "classify" -> x.err = Nil
      [] pc = "publish" -> x.client /\ x.o = "ack"
      [] OTHER -> FALSE

\* the next external call of process and what follows it up to the one after;
\* x is the answer the call gets
procStep(p0, x) ==
    LET p == [p0 EXCEPT !.answers = Append(@, IF Answered(p0.pc, x) THEN "ok" ELSE "fail")]
    IN
    CASE p.pc = "secret" ->
           LET s == getSecret(ProjectID, SecretName, x)
               p1 == [p EXCEPT !.steps = Append(@, "getSecret"),
                               !.fetched = IF x.client /\ x.ok THEN Append(@, x.data) ELSE @]
           IN  IF s.err # Nil THEN procReturn(p1, "getSecret", s.err)
               ELSE [p1 EXCEPT !.pc = "fetch", !.token = s.val,
                               !.log = Append(@, LogEntry("get secret", {}))]
      [] p.pc = "fetch" ->
           LET d == downloadImage(p.token, p.msg.ImageID, x)
               p1 == [p EXCEPT !.steps = Append(@, "downloadImage"), !.http = x,
                               !.auth = Append(@, d.req.Header.Authorization)]
           IN  IF d.panic THEN procReturn(p1, "downloadImage", Panic)
               ELSE IF d.err # Nil THEN procReturn(p1, "downloadImage", d.err)
               ELSE [p1 EXCEPT !.pc = "classify", !.image = d.bytes,
                               !.log = Append(@, LogEntry("download image", {}))]
      [] p.pc = "classify" ->
           LET a == analyzeImage(p.image, x)
               p1 == [p EXCEPT !.steps = Append(@, "analyzeImage"), !.vision = x.labels]
           IN  IF a.err # Nil THEN procReturn(p1, "analyzeImage", a.err)
               ELSE [p1 EXCEPT !.pc = "publish", !.labels = a.labels,
                               !.log = Append(@, LogEntry("labels: %v",
                                   {a.labels.elems[k] : k \in 1..Len(a.labels.elems)}))]
      [] p.pc = "publish" ->
           LET msgBytes == marshalSendMessage(sendMessage(p.msg.ReplyToken, p.labels))
               p1 == [p EXCEPT !.steps = Append(@, "publish")]
           IN  IF ~x.client THEN procReturn(p1, "publish", ErrNewClient)
               ELSE IF resultGet(x.o) # Nil THEN procReturn(p1, "publish", ErrEmpty)
               ELSE [p1 EXCEPT !.pc = "done", !.published = Append(@, msgBytes), !.result = Nil,
                               !.log = Append(@, LogEntry("publish: %s", {}))]
      [] OTHER -> p

\* events of other publishers of the to-process topic
ForeignProcEvents ==
    {CloudEvent(marshalProcessMessage(processMessage(I1, R1))),
     CloudEvent(marshalProcessMessage(processMessage(I2, R2))),
     CloudEvent(JObj([ImageID |-> JStr(I1)])),
     CloudEvent(JObj([ImageID |-> JNum(1), ReplyToken |-> JStr(R1)])),
     CloudEvent(Invalid), BadEvent, EmptyEvent}

\* the deliveries the broker may make to process: any message of the topic, any
\* number of times, and the events of other publishers (src 0)
ProcDeliveries ==
    {[evt |-> CloudEvent(toProcess[j]), src |-> j] : j \in 1..Len(toProcess)}
    \cup {[evt |-> e, src |-> 0] : e \in ForeignProcEvents}

(***************************************************************************)
(* send                                                                    *)
(***************************************************************************)
\* json.Unmarshal of one value into an element of a []string
decodeElems(a) == [k \in 1..Len(a) |-> decodeString(a[k], EmptyStr)]

\* json.Unmarshal(data, &sendMsg)
unmarshalSendMessage(data) ==
    CASE data.t = "invalid" -> [err |-> ErrSyntax, val |-> sendMessage(EmptyStr, NilSlice)]
      [] data.t = "empty" -> [err |-> ErrEOF, val |-> sendMessage(EmptyStr, NilSlice)]
      [] data.t = "null" -> [err |-> Nil, val |-> sendMessage(EmptyStr, NilSlice)]
      [] data.t = "obj" ->
           LET rt == decodeString(fieldOf(data, "ReplyToken"), EmptyStr)
               ls == fieldOf(data, "Labels")
               es == IF ls.t = "arr" THEN decodeElems(ls.a) ELSE <<>>
               lerr == CASE ls.t = "null" -> Nil
                         [] ls.t = "arr" -> firstErr(es)
                         [] OTHER -> ErrType
               lval == IF ls.t = "arr" THEN Slice([k \in 1..Len(es) |-> es[k].s]) ELSE NilSlice
           IN  [err |-> IF rt.err # Nil THEN rt.err ELSE lerr,
                val |-> sendMessage(rt.s, lval)]
      [] OTHER -> [err |-> ErrType, val |-> sendMessage(EmptyStr, NilSlice)]

\* the loop of strings.Join: for each s of the rest, write sep, then s
RECURSIVE joinRest(_, _, _)
joinRest(b, rest, sep) ==
    IF rest = <<>> THEN b
    ELSE joinRest(b \o <<sep>> \o Head(rest), Tail(rest), sep)

\* faulty variant: the separator is written before every element, the first included
JoinLeading(elems, sep) == joinRest(EmptyStr, elems, sep)

\* strings.Join(elems, sep)
Join(elems, sep) ==
    CASE Len(elems) = 0 -> EmptyStr
      [] Len(elems) = 1 -> elems[1]
      [] OTHER -> joinRest(elems[1], Tail(elems), sep)

\* what the reply endpoint answers: no response, or a status
ReplyHttp ==
    {[ok |-> FALSE, status |-> 0], [ok |-> TRUE, status |-> 200], [ok |-> TRUE, status |-> 400]}

\* the replyFormat document
replyFormat(replyToken, text) ==
    JObj([replyToken |-> JStr(replyToken),
          messages |-> JArr(<<JObj([type |-> JStr(<<"text">>), text |-> JStr(text)])>>)])

\* sendReply, given the outcome x of http.DefaultClient.Do(req)
sendReply(channelAccessToken, replyToken, text, x) ==
    LET url == <<"https://api.line.me/v2/bot/message/reply">>
        replyBytes == replyFormat(replyToken, text)
        req0 == NewRequest("POST", url, Reader(replyBytes))
        req == [req0 EXCEPT !.Header = [Authorization |-> Bearer(channelAccessToken),
                                        ContentType |-> <<"application/json">>]]
    IN  IF ~x.ok THEN [err |-> ErrHTTPDo, req |-> req]
        ELSE [err |-> Nil, req |-> req]

SendIdle ==
    [pc |-> "idle", evt |-> BadEvent, src |-> 0, msg |-> sendMessage(EmptyStr, NilSlice),
     text |-> EmptyStr, token |-> EmptyStr, http |-> [ok |-> FALSE, status |-> 0],
     steps |-> <<>>, answers |-> <<>>, failed |-> "", result |-> Running,
     fetched |-> <<>>, auth |-> <<>>, log |-> <<>>]

\* send up to the first external call: decode the event and its payload, join the labels
sendBegin(p, evt, src) ==
    LET p1 == [p EXCEPT !.evt = evt, !.src = src, !.steps = <<"decode">>,
                        !.log = <<LogEntry("send", {}),
                                  LogEntry("request: %v", EventStrings(evt))>>]
        sub == DataAs(evt)
        m == unmarshalSendMessage(sub.data)
    IN  IF sub.err # Nil THEN procReturn(p1, "decode", ErrDataAs)
        ELSE IF m.err # Nil THEN procReturn(p1, "decode", ErrUnmarshal)
        ELSE [p1 EXCEPT !.pc = "secret", !.msg = m.val,
                        !.text = Join(m.val.Labels.elems, NL),
                        !.log = @ \o <<LogEntry("reply token: %s", {m.val.ReplyToken}),
                                       LogEntry("labels: %v",
                                           {m.val.Labels.elems[k] :
                                              k \in 1..Len(m.val.Labels.elems)})>>]

\* channelAccessToken, err := getSecret(...) in send
sendSecret(p, x) ==
    LET s == getSecret(ProjectID, SecretName, x)
        p1 == [p EXCEPT !.steps = Append(@, "getSecret"),
                        !.answers = Append(@, IF x.client /\ x.ok THEN "ok" ELSE "fail"),
                        !.fetched = IF x.client /\ x.ok THEN Append(@, x.data) ELSE @]
    IN  IF s.err # Nil THEN procReturn(p1, "getSecret", s.err)
        ELSE [p1 EXCEPT !.pc = "reply", !.token = s.val,
                        !.log = Append(@, LogEntry("get secret", {}))]

\* sendReply(channelAccessToken, sendMsg.ReplyToken, text) in send, and the return
sendReplied(p, x) ==
    LET r == sendReply(p.token, p.msg.ReplyToken, p.text, x)
        p1 == [p EXCEPT !.steps = Append(@, "sendReply"), !.http = x,
                        !.answers = Append(@, IF x.ok /\ x.status \in 200..299
                                              THEN "ok" ELSE "fail"),
                        !.auth = Append(@, r.req.Header.Authorization)]
    IN  IF r.err # Nil THEN procReturn(p1, "sendReply", r.err)
        ELSE [p1 EXCEPT !.pc = "done", !.result = Nil,
                        !.log = Append(@, LogEntry("send reply", {}))]

\* events of other publishers of the to-send topic
ForeignSendEvents ==
    {CloudEvent(marshalSendMessage(sendMessage(R1, Slice(ls)))) : ls \in LabelLists}
    \cup {CloudEvent(marshalSendMessage(sendMessage(R2, NilSlice))),
          CloudEvent(JObj([ReplyToken |-> JStr(R2)])),
          CloudEvent(JObj([ReplyToken |-> JStr(R1), Labels |-> JStr(CAT)])),
          CloudEvent(JObj([ReplyToken |-> JStr(R1), Labels |-> JArr(<<JNum(1)>>)])),
          CloudEvent(Invalid), BadEvent, EmptyEvent}

\* the deliveries the broker may make to send
SendDeliveries ==
    {[evt |-> CloudEvent(toSend[j]), src |-> j] : j \in 1..Len(toSend)}
    \cup {[evt |-> e, src |-> 0] : e \in ForeignSendEvents}

(***************************************************************************)
(* Clients.                                                                *)
(***************************************************************************)
\* a client built by a NewClient call of invocation i of a stage
NewClient(kind, stage, i) == [kind |-> kind, owner |-> <<stage, i>>]

\* http.DefaultClient: the one client of package net/http in the instance that
\* runs the stage's function
DefaultClient(stage) == [kind |-> "http.Client", owner |-> <<stage, 0>>]

\* faulty variant: the credential-resolver client is kept by the instance as well
clientOfSharedResolver(stage, i, step) ==
    CASE step = "getSecret" -> NewClient("secretmanager.Client", stage, 0)
      [] step = "downloadImage" -> DefaultClient(stage)
      [] step = "sendReply" -> DefaultClient(stage)
      [] step = "analyzeImage" -> NewClient("vision.ImageAnnotatorClient", stage, i)
      [] step = "publish" -> NewClient("pubsub.Client", stage, i)

\* the client invocation i of a stage makes the call of a step with
clientOf(stage, i, step) ==
    CASE step = "getSecret" -> NewClient("secretmanager.Client", stage, i)
      [] step = "downloadImage" -> DefaultClient(stage)
      [] step = "sendReply" -> DefaultClient(stage)
      [] step = "analyzeImage" -> NewClient("vision.ImageAnnotatorClient", stage, i)
      [] step = "publish" -> NewClient("pubsub.Client", stage, i)

(***************************************************************************)
(* Initial state and the actions of receive.                               *)
(***************************************************************************)
Init ==
    /\ toProcess = <<>>
    /\ toSend = <<>>
    /\ replyCalls = <<>>
    /\ recv = [i \in RecvIds \cup ConcIds |-> RecvIdle]
    /\ proc = [i \in ProcIds |-> ProcIdle]
    /\ snd = [i \in SendIds |-> SendIdle]

\* the platform invokes receive with one HTTP request
RecvStart(i) ==
    /\ recv[i].pc = "idle"
    /\ \A j \in DOMAIN recv : j < i => recv[j].pc # "idle"
    /\ \E body \in Bodies, clientOK \in BOOLEAN :
         recv' = [recv EXCEPT ![i] = receiveBegin(recv[i], body, clientOK)]
    /\ UNCHANGED <<toProcess, toSend, replyCalls, proc, snd>>

\* a faulty variant: the loop runs over the events from the last to the first
RecvPublishLastFirst(i) ==
    /\ recv[i].pc = "loop"
    /\ recv[i].k < Len(recv[i].events)
    /\ \E o \in PublishOutcomes :
         LET e == recv[i].events[Len(recv[i].events) - recv[i].k]
             data == marshalProcessMessage(newProcessMessage(e))
             pos == IF o = "ack" THEN Len(toProcess) + 1 ELSE 0
         IN  /\ recv' = [recv EXCEPT ![i] = receivePublished(recv[i], data, o, pos)]
             /\ toProcess' = IF o = "ack" THEN Append(toProcess, data) ELSE toProcess
    /\ UNCHANGED <<toSend, replyCalls, proc, snd>>

\* a faulty variant: the decoded webhook is kept in a variable of the package,
\* so the loop reads the events of the invocation that decoded last
RecvPublishSharedHook(i) ==
    /\ recv[i].pc = "loop"
    /\ recv[i].k < Len(recv[i].events)
    /\ \E o \in PublishOutcomes :
         LET last == CHOOSE j \in DOMAIN recv :
                       /\ recv[j].pc # "idle"
                       /\ \A n \in DOMAIN recv : recv[n].pc # "idle" => n <= j
             hook == IF recv[i].k < Len(recv[last].events) THEN recv[last].events
                     ELSE recv[i].events
             data == marshalProcessMessage(newProcessMessage(hook[recv[i].k + 1]))
             pos == IF o = "ack" THEN Len(toProcess) + 1 ELSE 0
         IN  /\ recv' = [recv EXCEPT ![i] = receivePublished(recv[i], data, o, pos)]
             /\ toProcess' = IF o = "ack" THEN Append(toProcess, data) ELSE toProcess
    /\ UNCHANGED <<toSend, replyCalls, proc, snd>>

\* a faulty variant: the loop publishes to the topic that send consumes from
RecvPublishToSendTopic(i) ==
    /\ recv[i].pc = "loop"
    /\ recv[i].k < Len(recv[i].events)
    /\ \E o \in PublishOutcomes :
         LET data == marshalProcessMessage(newProcessMessage(recv[i].events[recv[i].k + 1]))
             pos == IF o = "ack" THEN Len(toSend) + 1 ELSE 0
         IN  /\ recv' = [recv EXCEPT ![i] = receivePublished(recv[i], data, o, pos)]
             /\ toSend' = IF o = "ack" THEN Append(toSend, data) ELSE toSend
    /\ UNCHANGED <<toProcess, replyCalls, proc, snd>>

\* one iteration of the loop: marshal, topic.Publish, result.Get
RecvPublish(i) ==
    /\ recv[i].pc = "loop"
    /\ recv[i].k < Len(recv[i].events)
    /\ \E o \in PublishOutcomes :
         LET data == marshalProcessMessage(newProcessMessage(recv[i].events[recv[i].k + 1]))
             pos == IF o = "ack" THEN Len(toProcess) + 1 ELSE 0
         IN  /\ recv' = [recv EXCEPT ![i] = receivePublished(recv[i], data, o, pos)]
             /\ toProcess' = IF o = "ack" THEN Append(toProcess, data) ELSE toProcess
    /\ UNCHANGED <<toSend, replyCalls, proc, snd>>

\* the loop is over: respond 200
RecvRespond(i) ==
    /\ recv[i].pc = "loop"
    /\ recv[i].k = Len(recv[i].events)
    /\ recv' = [recv EXCEPT ![i] = receiveEnd(recv[i])]
    /\ UNCHANGED <<toProcess, toSend, replyCalls, proc, snd>>

NextRecv == \E i \in RecvIds : RecvStart(i) \/ RecvPublish(i) \/ RecvRespond(i)

SpecRecv == Init /\ [][NextRecv]_vars

\* the platform delivers again a webhook that was answered 500
RecvRedeliver(i) ==
    /\ recv[i].pc = "done"
    /\ recv[i].code = StatusInternalServerError
    /\ Len(recv[i].past) < MaxRedeliver
    /\ \E clientOK \in BOOLEAN :
         recv' = [recv EXCEPT ![i] = receiveAgain(recv[i], clientOK)]
    /\ UNCHANGED <<toProcess, toSend, replyCalls, proc, snd>>

\* one webhook and its redeliveries: the attempts follow one another
NextRedeliver ==
    \/ RecvStart(1) /\ recv'[1].body \in WellFormedBodies
    \/ RecvPublish(1)
    \/ RecvRespond(1)
    \/ RecvRedeliver(1)

SpecRedeliver == Init /\ [][NextRedeliver]_vars

\* the broker invokes process with one event
ProcStart(i) ==
    /\ proc[i].pc = "idle"
    /\ \A j \in ProcIds : j < i => proc[j].pc # "idle"
    /\ \E d \in ProcDeliveries :
         proc' = [proc EXCEPT ![i] = processBegin(ProcIdle, d.evt, d.src)]
    /\ UNCHANGED <<toProcess, toSend, replyCalls, recv, snd>>

\* process makes its next external call
ProcStep(i) ==
    /\ proc[i].pc \in {"secret", "fetch", "classify", "publish"}
    /\ \E x \in ProcExt(proc[i].pc) :
         LET p == procStep(proc[i], x)
         IN  /\ proc' = [proc EXCEPT ![i] = p]
             /\ toSend' = toSend \o SubSeq(p.published, Len(proc[i].published) + 1,
                                           Len(p.published))
    /\ UNCHANGED <<toProcess, replyCalls, recv, snd>>

NextProc == \E i \in ProcIds : ProcStart(i) \/ ProcStep(i)

SpecProc == Init /\ [][NextProc]_vars

\* the broker invokes send with one event
SendStart(i) ==
    /\ snd[i].pc = "idle"
    /\ \A j \in SendIds : j < i => snd[j].pc # "idle"
    /\ \E d \in SendDeliveries :
         snd' = [snd EXCEPT ![i] = sendBegin(SendIdle, d.evt, d.src)]
    /\ UNCHANGED <<toProcess, toSend, replyCalls, recv, proc>>

\* send resolves the credential
SendGetSecret(i) ==
    /\ snd[i].pc = "secret"
    /\ \E x \in SecretOutcomes :
         snd' = [snd EXCEPT ![i] = sendSecret(snd[i], x)]
    /\ UNCHANGED <<toProcess, toSend, replyCalls, recv, proc>>

\* send posts the reply; a request that got a response reached the endpoint
SendReply(i) ==
    /\ snd[i].pc = "reply"
    /\ \E x \in ReplyHttp :
         /\ snd' = [snd EXCEPT ![i] = sendReplied(snd[i], x)]
         /\ replyCalls' =
              IF x.ok
              THEN Append(replyCalls,
                          [by |-> i, status |-> x.status,
                           req |-> sendReply(snd[i].token, snd[i].msg.ReplyToken,
                                             snd[i].text, x).req])
              ELSE replyCalls
    /\ UNCHANGED <<toProcess, toSend, recv, proc>>

NextSend == \E i \in SendIds : SendStart(i) \/ SendGetSecret(i) \/ SendReply(i)

SpecSend == Init /\ [][NextSend]_vars

Next == NextRecv \/ NextProc \/ NextSend

Spec == Init /\ [][Next]_vars

SpecStages == Init /\ [][NextProc \/ NextSend]_vars

(***************************************************************************)
(* The pipeline end to end: one webhook with one event, process invoked    *)
(* with the messages of the to-process topic, send with those of the       *)
(* to-send topic and with two messages of other publishers.                *)
(***************************************************************************)
PipeBodies == {JObj([events |-> JArr(<<EventJSON(R1, I1)>>)])}

PipeSendEvents ==
    {CloudEvent(marshalSendMessage(sendMessage(R2, NilSlice))), BadEvent}

NextPipe ==
    \/ \E i \in RecvIds : RecvStart(i) /\ recv'[i].body \in PipeBodies
    \/ \E i \in RecvIds : RecvPublish(i) \/ RecvRespond(i)
    \/ \E i \in ProcIds : ProcStart(i) /\ proc'[i].src > 0
    \/ \E i \in ProcIds : ProcStep(i)
    \/ \E i \in SendIds : SendStart(i) /\ (snd'[i].src > 0 \/ snd'[i].evt \in PipeSendEvents)
    \/ \E i \in SendIds : SendGetSecret(i) \/ SendReply(i)

SpecPipe == Init /\ [][NextPipe]_vars

(***************************************************************************)
(* The decoding of the payloads alone: each invocation up to its first     *)
(* external call, process with the events that carry a payload.            *)
(***************************************************************************)
NextCodec ==
    \/ \E i \in ProcIds : ProcStart(i) /\ DataAs(proc'[i].evt).data.t = "obj"
    \/ \E i \in SendIds : SendStart(i)

SpecCodec == Init /\ [][NextCodec]_vars

(***************************************************************************)
(* One invocation of each stage, from its start to its return.             *)
(***************************************************************************)
NextEach ==
    \/ RecvStart(1) \/ RecvPublish(1) \/ RecvRespond(1)
    \/ ProcStart(1) \/ ProcStep(1)
    \/ SendStart(1) /\ (snd'[1].src > 0 \/ snd'[1].evt \in PipeSendEvents)
    \/ SendGetSecret(1) \/ SendReply(1)

SpecEach == Init /\ [][NextEach]_vars

(***************************************************************************)
(* The invocations that use the credential: process invocations on one     *)
(* well-formed message and one send invocation on the messages of          *)
(* PipeSendEvents.                                                         *)
(***************************************************************************)
CredProcEvents == {CloudEvent(marshalProcessMessage(processMessage(I1, R1)))}

NextCred ==
    \/ \E i \in ProcIds : ProcStart(i) /\ proc'[i].evt \in CredProcEvents
    \/ \E i \in ProcIds : ProcStep(i)
    \/ SendStart(1) /\ (snd'[1].src > 0 \/ snd'[1].evt \in PipeSendEvents)
    \/ SendGetSecret(1) \/ SendReply(1)

SpecCred == Init /\ [][NextCred]_vars

(***************************************************************************)
(* Several receive invocations and several process invocations in flight   *)
(* at the same time, in any interleaving of their steps; the webhooks       *)
(* carry different events and process is delivered what receive published. *)
(***************************************************************************)
ConcBodies ==
    {JObj([events |-> JArr(<<EventJSON(R1, I1)>>)]),
     JObj([events |-> JArr(<<EventJSON(R2, I2), EventJSON(R1, I1)>>)])}

NextConc ==
    \/ \E i \in ConcIds : RecvStart(i) /\ recv'[i].body \in ConcBodies
    \/ \E i \in ConcIds : RecvPublish(i) \/ RecvRespond(i)
    \/ \E i \in ProcIds : ProcStart(i) /\ proc'[i].src > 0
    \/ \E i \in ProcIds : ProcStep(i)

SpecConc == Init /\ [][NextConc]_vars

(***************************************************************************)
(* An endpoint that accepts the request and never responds.                *)
(***************************************************************************)
\* http.DefaultClient.Timeout: the zero value, which means no timeout; the
\* requests are built by http.NewRequest, without a context that has a deadline
DefaultClientTimeout == 0

\* the invocation is inside http.DefaultClient.Do, which does not return
doUnanswered(p, step) ==
    [p EXCEPT !.pc = "blocked", !.steps = Append(@, step),
              !.auth = Append(@, Bearer(p.token))]

\* the image content endpoint never responds to the request of downloadImage:
\* with a timeout Do returns an error, without one it never returns
ProcHang(i) ==
    /\ proc[i].pc = "fetch"
    /\ proc' = [proc EXCEPT ![i] =
                  IF DefaultClientTimeout > 0
                  THEN procStep(proc[i], [ok |-> FALSE, status |-> 0, body |-> <<>>])
                  ELSE doUnanswered(proc[i], "downloadImage")]
    /\ UNCHANGED <<toProcess, toSend, replyCalls, recv, snd>>

\* the reply endpoint never responds to the request of sendReply
SendHang(i) ==
    /\ snd[i].pc = "reply"
    /\ snd' = [snd EXCEPT ![i] =
                 IF DefaultClientTimeout > 0
                 THEN sendReplied(snd[i], [ok |-> FALSE, status |-> 0])
                 ELSE doUnanswered(snd[i], "sendReply")]
    /\ UNCHANGED <<toProcess, toSend, replyCalls, recv, proc>>

NextHang ==
    \/ NextCred
    \/ \E i \in ProcIds : ProcHang(i)
    \/ SendHang(1)

SpecHang == Init /\ [][NextHang]_vars

(***************************************************************************)
(* What the properties below are stated in: the request and the events as  *)
(* they were sent, not as the program decoded them.                        *)
(***************************************************************************)
\* the events of a webhook body, as JSON
BodyEvents(body) ==
    IF HasKey(body, "events") /\ body.f.events.t = "arr" THEN body.f.events.a ELSE <<>>

\* data is a ProcessMessage document carrying the fields of the webhook event e
CarriesEvent(data, e) ==
    /\ data.t = "obj"
    /\ DOMAIN data.f = {"ImageID", "ReplyToken"}
    /\ data.f.ImageID = e.f.message.f.id
    /\ data.f.ReplyToken = e.f.replyToken

\* the publishes of receive invocations the broker acknowledged
AckedPubs ==
    UNION {{<<i, k>> : k \in {n \in 1..Len(recv[i].issued) : recv[i].issued[n].outcome = "ack"}} :
             i \in RecvIds}

\* every message of the to-process topic is one acknowledged publish, and conversely
TopicAccounted ==
    /\ Cardinality(AckedPubs) = Len(toProcess)
    /\ \A p \in AckedPubs :
         /\ recv[p[1]].issued[p[2]].pos \in 1..Len(toProcess)
         /\ toProcess[recv[p[1]].issued[p[2]].pos] = recv[p[1]].issued[p[2]].data
    /\ \A p, q \in AckedPubs :
         recv[p[1]].issued[p[2]].pos = recv[q[1]].issued[q[2]].pos => p = q

NoPublishFailure(r) ==
    r.clientOK /\ \A k \in 1..Len(r.issued) : r.issued[k].outcome = "ack"

\* C1: a finished receive invocation on a well-formed body with N events and no
\* publish failure has published exactly N messages, the k-th carrying the k-th
\* event's message.id as ImageID and its replyToken as ReplyToken, in envelope
\* order on the topic, and the topic holds nothing but acknowledged publishes.
C1_ReceivePublishesEveryEvent ==
    /\ TopicAccounted
    /\ \A i \in RecvIds :
         LET r == recv[i]
             es == BodyEvents(r.body)
         IN  (r.pc = "done" /\ r.body \in WellFormedBodies /\ NoPublishFailure(r)) =>
               /\ r.code = 200
               /\ Len(r.issued) = Len(es)
               /\ \A k \in 1..Len(es) : CarriesEvent(r.issued[k].data, es[k])
               /\ \A k \in 1..(Len(es) - 1) : r.issued[k].pos < r.issued[k + 1].pos

C1_Witness ==
    \E i \in RecvIds :
        /\ recv[i].pc = "done" /\ recv[i].code = 200
        /\ recv[i].body \in WellFormedBodies
        /\ Len(BodyEvents(recv[i].body)) = 3
        /\ BodyEvents(recv[i].body)[1] # BodyEvents(recv[i].body)[2]
        /\ Len(toProcess) >= 3

\* C2: the step in which receive reads a body that is not valid JSON ends the
\* invocation with HTTP 500, issues no publish and leaves the to-process topic
\* unchanged.
C2_InvalidJSONPublishesNothing ==
    [][\A i \in RecvIds :
         (recv[i].pc = "idle" /\ recv'[i].pc # "idle" /\ recv'[i].body.t = "invalid") =>
           /\ recv'[i].pc = "done"
           /\ recv'[i].code = 500
           /\ recv'[i].issued = <<>>
           /\ toProcess' = toProcess]_vars

C2_Witness ==
    \E i \in RecvIds :
        recv[i].body.t = "invalid" /\ recv[i].pc = "done" /\ recv[i].code = 500

\* C3: in the step that writes the HTTP 200 response, every event of the batch
\* already has a publish acknowledged by the broker, whose message is on the topic.
C3_OkOnlyAfterAllAcks ==
    [][\A i \in RecvIds :
         (recv[i].code # 200 /\ recv'[i].code = 200) =>
           LET r == recv[i]
           IN  /\ Len(r.issued) = Len(BodyEvents(r.body))
               /\ \A k \in 1..Len(r.issued) :
                    /\ r.issued[k].outcome = "ack"
                    /\ r.issued[k].pos \in 1..Len(toProcess)
                    /\ toProcess[r.issued[k].pos] = r.issued[k].data]_vars

C3_Witness ==
    \E i \in RecvIds :
        /\ recv[i].code = 200
        /\ Len(recv[i].issued) = 3
        /\ \A k \in 1..3 : recv[i].issued[k].outcome = "ack"

\* C4: when the publish of the k-th event fails, the invocation is over with HTTP
\* 500 and the error's text as body, the failed publish is the last one issued,
\* and what the invocation published is exactly the messages of events 1..k-1.
C4_FailedPublishAborts ==
    /\ TopicAccounted
    /\ \A i \in RecvIds :
         LET r == recv[i]
             es == BodyEvents(r.body)
         IN  \A k \in 1..Len(r.issued) :
               r.issued[k].outcome = "fail" =>
                 /\ r.pc = "done"
                 /\ r.code = 500
                 /\ r.respBody = ErrPublish
                 /\ k = Len(r.issued)
                 /\ r.issued[k].pos = 0
                 /\ \A j \in 1..(k - 1) :
                      /\ r.issued[j].outcome = "ack"
                      /\ r.body \in WellFormedBodies => CarriesEvent(r.issued[j].data, es[j])
                 /\ Cardinality({p \in AckedPubs : p[1] = i}) = k - 1

C4_Witness ==
    \E i \in RecvIds :
        /\ Len(BodyEvents(recv[i].body)) = 3
        /\ Len(recv[i].issued) = 2
        /\ recv[i].issued[2].outcome = "fail"
        /\ recv[i].code = 500
        /\ Len(toProcess) >= 1

(***************************************************************************)
(* process and send                                                        *)
(***************************************************************************)
ProcessOrder == <<"decode", "getSecret", "downloadImage", "analyzeImage", "publish">>

IsPrefix(a, b) == Len(a) <= Len(b) /\ \A k \in 1..Len(a) : a[k] = b[k]

\* the payload of the event decodes into a message
Decodable(p) == Len(p.steps) >= 1 /\ p.failed # "decode"

\* some service answered a call of the invocation with a failure
SomeFailure(p) == \E k \in 1..Len(p.answers) : p.answers[k] = "fail"

\* the invocation returned err, a non-nil error
ReturnedError(p) == p.pc = "done" /\ p.result \notin {Nil, Running, Panic}

\* C5: process runs decode, getSecret, downloadImage, analyzeImage, publish in
\* this order; a failure at a step ends the invocation with a returned non-nil
\* error, no later step and no SendMessage published; an invocation none of
\* whose steps fails runs all of them and returns nil, and nil is returned only
\* once the publish was acknowledged.
C5_ProcessStepsAndErrors ==
    \A i \in ProcIds :
        LET p == proc[i]
        IN  /\ IsPrefix(p.steps, ProcessOrder)
            /\ (p.pc # "idle" /\ (~Decodable(p) \/ SomeFailure(p))) =>
                 /\ ReturnedError(p)
                 /\ p.published = <<>>
                 /\ Len(p.steps) = Len(p.answers) + 1
                 /\ \A k \in 1..(Len(p.answers) - 1) : p.answers[k] = "ok"
            /\ (p.pc = "done" /\ Decodable(p) /\ ~SomeFailure(p)) =>
                 (p.result = Nil /\ p.steps = ProcessOrder)
            /\ p.result = Nil =>
                 (Len(p.published) = 1 /\ p.answers[Len(p.answers)] = "ok")

\* the string a payload carries under key k, the empty string when it carries none
SentString(data, k) ==
    IF HasKey(data, k) /\ data.f[k].t = "str" THEN data.f[k].s ELSE EmptyStr

\* C6: every SendMessage process publishes carries the ReplyToken of the message
\* it consumed and the classifier's descriptions in the classifier's order, and
\* an invocation all of whose calls succeed publishes exactly one.
C6_PublishesOneSendMessage ==
    \A i \in ProcIds :
        LET p == proc[i]
            Good(d) == /\ d.t = "obj"
                       /\ d.f.ReplyToken = JStr(SentString(p.evt.data, "ReplyToken"))
                       /\ d.f.Labels = JArr([k \in 1..Len(p.vision) |->
                                               JStr(p.vision[k].Description)])
        IN  /\ \A k \in 1..Len(p.published) : Good(p.published[k])
            /\ (p.pc = "done" /\ Decodable(p) /\ ~SomeFailure(p)) => Len(p.published) = 1

\* C7: when the image content endpoint answers the request, downloadImage
\* returns the bytes of the response body, and these are the bytes process
\* holds for the classifier.
C7_DownloadReturnsResponseBody ==
    \A i \in ProcIds :
        LET p == proc[i]
        IN  ("downloadImage" \in {p.steps[k] : k \in 1..Len(p.steps)} /\ p.http.ok) =>
              /\ p.failed # "downloadImage"
              /\ p.image = p.http.body

\* the labels of a SendMessage payload, as sent
PayloadLabels(evt) ==
    LET ls == fieldOf(evt.data, "Labels")
    IN  IF ls.t = "arr" THEN [k \in 1..Len(ls.a) |-> ls.a[k].s] ELSE <<>>

\* the place before the k-th label in the join of labels
RECURSIVE Offset(_, _)
Offset(labels, k) ==
    IF k = 1 THEN 0 ELSE Offset(labels, k - 1) + Len(labels[k - 1]) + 1

\* text is the labels, each followed by one newline except the last, and no more
IsJoinOf(text, labels) ==
    IF labels = <<>> THEN text = <<>>
    ELSE /\ Len(text) = Offset(labels, Len(labels)) + Len(labels[Len(labels)])
         /\ \A k \in 1..Len(labels) :
              /\ SubSeq(text, Offset(labels, k) + 1, Offset(labels, k) + Len(labels[k]))
                   = labels[k]
              /\ k < Len(labels) => text[Offset(labels, k) + Len(labels[k]) + 1] = NL

\* the text of a request the reply endpoint received
SentText(call) == call.req.Body.bytes.f.messages.a[1].f.text.s

\* C8: the text send computes, and the text of every reply request it makes, is
\* the labels of the consumed message joined with one newline between
\* consecutive entries, the empty string for no labels; whenever send returns
\* nil the reply request was made, the empty one included.
C8_ReplyTextIsJoinedLabels ==
    /\ \A i \in SendIds :
         LET s == snd[i]
         IN  /\ (s.pc # "idle" /\ Decodable(s)) => IsJoinOf(s.text, PayloadLabels(s.evt))
             /\ s.result = Nil => \E c \in 1..Len(replyCalls) : replyCalls[c].by = i
    /\ \A c \in 1..Len(replyCalls) :
         /\ IsJoinOf(SentText(replyCalls[c]), PayloadLabels(snd[replyCalls[c].by].evt))
         /\ replyCalls[c].req.Body.bytes.f.replyToken
              = JStr(SentString(snd[replyCalls[c].by].evt.data, "ReplyToken"))

C8_Witness ==
    \E c \in 1..Len(replyCalls) :
        /\ PayloadLabels(snd[replyCalls[c].by].evt) = <<CAT, OUTDOOR>>
        /\ SentText(replyCalls[c]) = CAT \o <<NL>> \o OUTDOOR

\* C9: a send invocation in which the decode, the credential fetch or the reply
\* call fails returns a non-nil error; it returns nil only once the reply
\* endpoint accepted the reply; and the reply call is made only with a
\* credential resolved before it in the same invocation.
C9_SendErrors ==
    \A i \in SendIds :
        LET s == snd[i]
        IN  /\ (s.pc # "idle" /\ (~Decodable(s) \/ SomeFailure(s))) => ReturnedError(s)
            /\ s.result = Nil =>
                 \E c \in 1..Len(replyCalls) :
                     replyCalls[c].by = i /\ replyCalls[c].status \in 200..299
            /\ "sendReply" \in {s.steps[k] : k \in 1..Len(s.steps)} =>
                 (s.steps = <<"decode", "getSecret", "sendReply">> /\ s.answers[1] = "ok")

\* C10: an answer of the image content endpoint or of the reply endpoint with a
\* status outside 200..299 makes process, respectively send, return a non-nil
\* error.
C10_Non2xxIsAnError ==
    /\ \A i \in ProcIds :
         ("downloadImage" \in {proc[i].steps[k] : k \in 1..Len(proc[i].steps)}
            /\ proc[i].http.ok /\ proc[i].http.status \notin 200..299)
           => ReturnedError(proc[i])
    /\ \A i \in SendIds :
         ("sendReply" \in {snd[i].steps[k] : k \in 1..Len(snd[i].steps)}
            /\ snd[i].http.ok /\ snd[i].http.status \notin 200..299)
           => ReturnedError(snd[i])

(***************************************************************************)
(* The pipeline end to end.                                                *)
(***************************************************************************)
\* the descriptions the classifier returned to the invocation, in its order
VisionLabels(p) == [k \in 1..Len(p.vision) |-> p.vision[k].Description]

\* the invocation is over and every service it called answered with a success
FinishedUnfailed(p) == p.pc = "done" /\ Decodable(p) /\ ~SomeFailure(p)

\* reply call c went to reply token rt with the newline-join of labels as text
RepliesTo(c, rt, labels) ==
    /\ replyCalls[c].req.Body.bytes.f.replyToken = JStr(rt)
    /\ IsJoinOf(SentText(replyCalls[c]), labels)

\* C11: end to end with no dependency failure, in the form a finite run
\* decides: for every event {replyToken r, message.id i} of a webhook receive
\* answered with 200, every process invocation the broker delivered the event's
\* message to, once over with all its calls answered, has left on the to-send
\* topic a SendMessage for r with the classifier's labels, and every send
\* invocation that message was delivered to, once over with all its calls
\* answered, has sent a reply to r whose text is the newline-join of the labels.
C11_EveryEventIsAnswered ==
    \A i \in RecvIds : \A k \in 1..Len(recv[i].issued) : \A p \in ProcIds :
        (/\ recv[i].code = 200
         /\ recv[i].body \in WellFormedBodies
         /\ proc[p].src > 0
         /\ proc[p].src = recv[i].issued[k].pos
         /\ FinishedUnfailed(proc[p]))
        =>
        LET r == BodyEvents(recv[i].body)[k].f.replyToken.s
            labels == VisionLabels(proc[p])
        IN  \E m \in 1..Len(toSend) :
                /\ toSend[m] = marshalSendMessage(sendMessage(r, Slice(labels)))
                /\ \A s \in SendIds :
                     (snd[s].src = m /\ FinishedUnfailed(snd[s])) =>
                       \E c \in 1..Len(replyCalls) :
                           replyCalls[c].by = s /\ RepliesTo(c, r, labels)

\* the answers the services gave to the calls of the invocation
Responses(p) == <<p.answers, p.token, p.http, p.vision>>

\* C12: two process invocations on the same ProcessMessage that got the same
\* answers from the services run the same steps and publish the same payloads,
\* and when the answers were all successes each has published one SendMessage,
\* the two being separate messages of the to-send topic with identical
\* ReplyToken and Labels.
C12_RedeliveryPublishesTheSameTwice ==
    \A i, j \in ProcIds :
        (/\ i # j
         /\ proc[i].pc = "done" /\ proc[j].pc = "done"
         /\ Decodable(proc[i])
         /\ proc[i].evt = proc[j].evt
         /\ Responses(proc[i]) = Responses(proc[j]))
        =>
        /\ proc[i].steps = proc[j].steps
        /\ (proc[i].result = Nil) = (proc[j].result = Nil)
        /\ proc[i].published = proc[j].published
        /\ ~SomeFailure(proc[i]) =>
             /\ Len(proc[i].published) = 1
             /\ proc[i].published[1].f.ReplyToken
                  = JStr(SentString(proc[i].evt.data, "ReplyToken"))
             /\ \E m, n \in 1..Len(toSend) :
                    m # n /\ toSend[m] = proc[i].published[1]
                          /\ toSend[n] = proc[j].published[1]

(***************************************************************************)
(* The payloads on the wire.                                               *)
(***************************************************************************)
FieldStrings == {EmptyStr, R1, R2, I1, I2}
ProcessMessages == {processMessage(a, b) : a, b \in FieldStrings}
SendMessages ==
    {sendMessage(r, l) : r \in {EmptyStr, R1, R2},
                         l \in {NilSlice} \cup {Slice(ls) : ls \in LabelLists}}

\* each message with the event that carries its serialized form
ProcessWire == {[m |-> m, evt |-> CloudEvent(marshalProcessMessage(m))] : m \in ProcessMessages}
SendWire == {[m |-> m, evt |-> CloudEvent(marshalSendMessage(m))] : m \in SendMessages}

\* decoding the serialized form gives no error and the value serialized
DecodesToItself ==
    /\ \A m \in ProcessMessages :
         unmarshalProcessMessage(marshalProcessMessage(m)) = [err |-> Nil, val |-> m]
    /\ \A m \in SendMessages :
         unmarshalSendMessage(marshalSendMessage(m)) = [err |-> Nil, val |-> m]

\* C13: decoding the serialized form of a ProcessMessage or of a SendMessage
\* (empty and nil Labels included) gives no error and a value equal to the one
\* serialized, and a process or send invocation delivered such a payload holds
\* exactly that value.
C13_RoundTrip ==
    /\ DecodesToItself
    /\ \A i \in ProcIds : \A w \in ProcessWire :
         (proc[i].pc # "idle" /\ proc[i].evt = w.evt) =>
           (Decodable(proc[i]) /\ proc[i].msg = w.m)
    /\ \A i \in SendIds : \A w \in SendWire :
         (snd[i].pc # "idle" /\ snd[i].evt = w.evt) =>
           (Decodable(snd[i]) /\ snd[i].msg = w.m)

C13_Witness ==
    /\ \E i \in SendIds :
         /\ snd[i].evt = CloudEvent(marshalSendMessage(sendMessage(R1, Slice(<<>>))))
         /\ snd[i].msg = sendMessage(R1, Slice(<<>>))
    /\ \E i \in ProcIds :
         /\ proc[i].evt = CloudEvent(marshalProcessMessage(processMessage(I2, R2)))
         /\ proc[i].msg = processMessage(I2, R2)

(***************************************************************************)
(* Redelivery of a webhook.                                                *)
(***************************************************************************)
\* what each attempt on the webhook of r issued, the current attempt last
Attempts(r) == Append(r.past, r.issued)

\* the acknowledged publishes of all attempts of r: <<attempt, event>>
AckedOf(r) ==
    {an \in (1..Len(Attempts(r))) \X (1..MaxEvents + 1) :
       an[2] <= Len(Attempts(r)[an[1]]) /\ Attempts(r)[an[1]][an[2]].outcome = "ack"}

\* C14: every attempt on a webhook publishes its events from the first one on,
\* the n-th publish carrying the n-th event, whatever earlier attempts
\* published, up to the last event or to a publish that fails; the payload of
\* an event is the same bytes in every attempt; and
\* every acknowledged publish of every attempt is a message of its own on the
\* to-process topic, so that the events before the failing one are there once
\* per attempt.
C14_RedeliveryRepublishesAll ==
    \A i \in RecvIds :
        LET r == recv[i]
            es == BodyEvents(r.body)
            A == Attempts(r)
        IN  /\ \A a \in 1..Len(A) : \A n \in 1..Len(A[a]) :
                 /\ n <= Len(es)
                 /\ CarriesEvent(A[a][n].data, es[n])
                 /\ \A b \in 1..Len(A) : n <= Len(A[b]) => A[b][n].data = A[a][n].data
            /\ (r.pc = "done" /\ r.clientOK) =>
                 \/ r.code = 200 /\ Len(r.issued) = Len(es)
                 \/ /\ r.code = 500 /\ Len(r.issued) >= 1
                    /\ r.issued[Len(r.issued)].outcome = "fail"
            /\ \A x \in AckedOf(r) :
                 /\ A[x[1]][x[2]].pos \in 1..Len(toProcess)
                 /\ toProcess[A[x[1]][x[2]].pos] = A[x[1]][x[2]].data
                 /\ \A y \in AckedOf(r) :
                      A[x[1]][x[2]].pos = A[y[1]][y[2]].pos => x = y
            /\ (\A j \in RecvIds : j # i => recv[j].pc = "idle") =>
                 Len(toProcess) = Cardinality(AckedOf(r))

C14_Witness ==
    \E i \in RecvIds :
        /\ Len(recv[i].past) = 1
        /\ Len(recv[i].past[1]) = 3
        /\ recv[i].past[1][3].outcome = "fail"
        /\ BodyEvents(recv[i].body)[1] # BodyEvents(recv[i].body)[2]
        /\ recv[i].code = 200
        /\ Len(toProcess) = 5
        /\ toProcess[1] = toProcess[3] /\ toProcess[2] = toProcess[4]

LacksField(e) ==
    \/ SentString(e, "replyToken") = EmptyStr
    \/ ~HasKey(e, "message")
    \/ SentString(e.f.message, "id") = EmptyStr

\* C16: every ProcessMessage on the to-process topic has a non-empty ImageID
\* and a non-empty ReplyToken, and a receive invocation on a body one of whose
\* events lacks replyToken or message.id ends with HTTP 500.
C16_NoEmptyFieldOnTopic ==
    /\ \A j \in 1..Len(toProcess) :
         /\ SentString(toProcess[j], "ImageID") # EmptyStr
         /\ SentString(toProcess[j], "ReplyToken") # EmptyStr
    /\ \A i \in RecvIds :
         LET es == BodyEvents(recv[i].body)
         IN  (recv[i].pc # "idle" /\ \E k \in 1..Len(es) : LacksField(es[k])) =>
               (recv[i].pc = "done" /\ recv[i].code = 500)

(***************************************************************************)
(* Retries.                                                                *)
(***************************************************************************)
\* no step occurs twice in steps
NoRepeat(steps) == \A a, b \in 1..Len(steps) : steps[a] = steps[b] => a = b

\* the calls of a process or send invocation: each step after the decode is one
\* call and got one answer, no call was made twice, and a failed call is the
\* last one of the invocation, which is over
CallsOnce(p) ==
    /\ NoRepeat(p.steps)
    /\ p.pc # "idle" => Len(p.answers) = Len(p.steps) - 1
    /\ \A k \in 1..Len(p.answers) :
         p.answers[k] = "fail" => (k = Len(p.answers) /\ p.pc = "done")

\* C17: within one invocation no external call is made twice: process and send
\* make each of their calls at most once, receive issues at most one publish
\* per event, the n-th for the n-th event; a call that fails is the last call of
\* its invocation, and an invocation that is over makes no further call.
C17_NoLocalRetry ==
    /\ [](/\ \A i \in ProcIds : CallsOnce(proc[i])
          /\ \A i \in SendIds : CallsOnce(snd[i])
          /\ \A c, d \in 1..Len(replyCalls) : replyCalls[c].by = replyCalls[d].by => c = d
          /\ \A i \in RecvIds :
               /\ Len(recv[i].issued) <= Len(recv[i].events)
               /\ \A n \in 1..Len(recv[i].issued) :
                    /\ recv[i].issued[n].data
                         = marshalProcessMessage(newProcessMessage(recv[i].events[n]))
                    /\ recv[i].issued[n].outcome = "fail" =>
                         (n = Len(recv[i].issued) /\ recv[i].pc = "done"))
    /\ [][/\ \A i \in ProcIds : proc[i].pc = "done" => proc'[i] = proc[i]
          /\ \A i \in SendIds : snd[i].pc = "done" => snd'[i] = snd[i]
          /\ \A i \in RecvIds : recv[i].pc = "done" => recv'[i] = recv[i]]_vars

C17_Witness ==
    /\ proc[1].steps = <<"decode", "getSecret", "downloadImage">>
    /\ proc[1].answers = <<"ok", "fail">>
    /\ proc[1].pc = "done"
    /\ snd[1].steps = <<"decode", "getSecret", "sendReply">>
    /\ snd[1].answers = <<"ok", "fail">>
    /\ Len(recv[1].issued) = 2 /\ recv[1].issued[2].outcome = "fail"
    /\ Len(recv[1].events) = 3

(***************************************************************************)
(* The credential.                                                         *)
(***************************************************************************)
\* the values the credential store may hold
Credentials == {x.data : x \in {y \in SecretOutcomes : y.client /\ y.ok}}

\* the invocation made every request with the credential the store returned to
\* it, which it asked for once, and nothing it logged holds a credential
OwnCredential(p, call) ==
    /\ Len(p.fetched) <= 1
    /\ \A k \in 1..Len(p.auth) :
         /\ Len(p.fetched) = 1
         /\ p.auth[k] = Bearer(p.fetched[1])
    /\ call \in {p.steps[k] : k \in 1..Len(p.steps)} => Len(p.auth) = 1
    /\ \A k \in 1..Len(p.log) : \A c \in Credentials :
         c \notin p.log[k].args /\ Bearer(c) \notin p.log[k].args

\* C18: every request to the image content endpoint or to the reply endpoint
\* carries the credential the store returned to a getSecret call made before
\* it in the same invocation, whatever other invocations were given; an
\* invocation asks the store at most once; and no log entry of process or of
\* send, the stages that hold the credential, contains it.
C18_CredentialFreshAndUnlogged ==
    /\ \A i \in ProcIds : OwnCredential(proc[i], "downloadImage")
    /\ \A i \in SendIds : OwnCredential(snd[i], "sendReply")
    /\ \A c \in 1..Len(replyCalls) :
         /\ Len(snd[replyCalls[c].by].fetched) = 1
         /\ replyCalls[c].req.Header.Authorization
              = Bearer(snd[replyCalls[c].by].fetched[1])

C18_Witness ==
    /\ \E i, j \in ProcIds :
         /\ proc[i].fetched = <<TK1>> /\ proc[i].auth = <<Bearer(TK1)>>
         /\ proc[j].fetched = <<TK2>> /\ proc[j].auth = <<Bearer(TK2)>>
         /\ Len(proc[i].log) >= 5
    /\ \E c \in 1..Len(replyCalls) :
         /\ replyCalls[c].req.Header.Authorization = Bearer(TK2)
         /\ Len(snd[replyCalls[c].by].log) >= 6

(***************************************************************************)
(* Who uses which client.                                                  *)
(***************************************************************************)
Invocations ==
    ({"receive"} \X RecvIds) \cup ({"process"} \X ProcIds) \cup ({"send"} \X SendIds)

\* the steps of an invocation that are calls through a client
CallSteps(a) ==
    CASE a[1] = "receive" -> IF recv[a[2]].issued # <<>> THEN {"publish"} ELSE {}
      [] a[1] = "process" ->
           {proc[a[2]].steps[k] : k \in 1..Len(proc[a[2]].steps)} \ {"decode"}
      [] a[1] = "send" ->
           {snd[a[2]].steps[k] : k \in 1..Len(snd[a[2]].steps)} \ {"decode"}

\* the clients invocation a has made a call with
ClientsUsed(a) == {clientOf(a[1], a[2], st) : st \in CallSteps(a)}

C20_DuplicateDeliveryRepliesTwice ==
    /\ \A p, q \in ProcIds :
         (/\ p # q
          /\ proc[p].src > 0 /\ proc[p].src = proc[q].src
          /\ FinishedUnfailed(proc[p]) /\ FinishedUnfailed(proc[q]))
         =>
         \E m, n \in 1..Len(toSend) :
             /\ m # n
             /\ SentString(toSend[m], "ReplyToken") = proc[p].msg.ReplyToken
             /\ SentString(toSend[n], "ReplyToken") = proc[p].msg.ReplyToken
    /\ \A s, t \in SendIds :
         (/\ s # t
          /\ snd[s].src > 0 /\ snd[t].src > 0
          /\ FinishedUnfailed(snd[s]) /\ FinishedUnfailed(snd[t])
          /\ snd[s].msg.ReplyToken = snd[t].msg.ReplyToken)
         =>
         \E c, d \in 1..Len(replyCalls) :
             /\ c # d
             /\ replyCalls[c].by = s /\ replyCalls[d].by = t
             /\ replyCalls[c].req.Body.bytes.f.replyToken = JStr(snd[s].msg.ReplyToken)
             /\ replyCalls[d].req.Body.bytes.f.replyToken = JStr(snd[s].msg.ReplyToken)

(***************************************************************************)
(* Termination.                                                            *)
(***************************************************************************)
\* the invocation is at a call that will never return
Blocked(p) == p.pc = "blocked"

\* C21: an invocation of process or send whose request the image content
\* endpoint or the reply endpoint never answers is not held by the call: it is
\* over, and with a returned error.
C21_UnansweredCallEnds ==
    /\ \A i \in ProcIds : ~Blocked(proc[i])
    /\ \A i \in SendIds : ~Blocked(snd[i])
    /\ \A i \in ProcIds :
         (proc[i].failed = "downloadImage" /\ ~proc[i].http.ok) => ReturnedError(proc[i])
    /\ \A i \in SendIds :
         (snd[i].failed = "sendReply" /\ ~snd[i].http.ok) => ReturnedError(snd[i])

(***************************************************************************)
(* What a step of each stage leaves alone.                                 *)
(***************************************************************************)
\* the step only appends to the topic
Appends(topic, topicAfter) == IsPrefix(topic, topicAfter)

\* C22: every step only appends to the topics; a step of a receive invocation
\* leaves the to-send topic as it is, a step of a process invocation leaves the
\* to-process topic as it is, and a step of a send invocation leaves both as
\* they are; the to-process topic grows only in a step of receive and the
\* to-send topic only in a step of process.
C22_TopicsAppendOnlyForward ==
    [][/\ Appends(toProcess, toProcess')
       /\ Appends(toSend, toSend')
       /\ (recv' # recv => toSend' = toSend /\ replyCalls' = replyCalls)
       /\ (proc' # proc => toProcess' = toProcess /\ replyCalls' = replyCalls)
       /\ (snd' # snd => toProcess' = toProcess /\ toSend' = toSend)
       /\ (toProcess' # toProcess => recv' # recv /\ proc' = proc /\ snd' = snd)
       /\ (toSend' # toSend => proc' # proc /\ recv' = recv /\ snd' = snd)]_vars

\* receive has published, a process invocation that was delivered a message of
\* the to-process topic is over, and a send invocation has made its reply call
C22_Witness ==
    /\ Len(toProcess) >= 1
    /\ recv[1].pc = "done"
    /\ proc[1].pc = "done" /\ proc[1].src > 0
    /\ snd[1].pc = "done" /\ Len(replyCalls) >= 1
    /\ toProcess[proc[1].src] = recv[1].issued[1].data

(***************************************************************************)
(* Invocations in flight at the same time.                                 *)
(***************************************************************************)
\* the multiset of the messages of a sequence
BagOf(q) ==
    [x \in {q[k] : k \in 1..Len(q)} |-> Cardinality({k \in 1..Len(q) : q[k] = x})]

\* the outcomes the broker gave the publishes of the invocation
OutcomesOf(r) == [n \in 1..Len(r.issued) |-> r.issued[n].outcome]

RECURSIVE publishedAlone(_, _)
\* the messages the invocation r gets acknowledged when it runs with no other
\* invocation and the broker answers its publishes with outs
publishedAlone(r, outs) ==
    IF r.pc # "loop" \/ r.k >= Len(r.events) \/ outs = <<>> THEN <<>>
    ELSE LET data == marshalProcessMessage(newProcessMessage(r.events[r.k + 1]))
         IN  (IF Head(outs) = "ack" THEN <<data>> ELSE <<>>)
             \o publishedAlone(receivePublished(r, data, Head(outs), 0), Tail(outs))

\* what the receive invocation i would have published alone
RecvAlone(i) ==
    IF recv[i].pc = "idle" THEN <<>>
    ELSE publishedAlone(receiveBegin(RecvIdle, recv[i].body, recv[i].clientOK),
                        OutcomesOf(recv[i]))

RECURSIVE AllOf(_, _)
\* the sequences f[1], ..., f[n] one after the other
AllOf(f, n) == IF n = 0 THEN <<>> ELSE AllOf(f, n - 1) \o f[n]

\* C23: in every interleaving of the steps of several receive invocations and
\* several process invocations, the to-process topic holds, as a multiset, the
\* messages each receive invocation would have published alone, the to-send
\* topic the messages each process invocation published, and every message of
\* the to-process topic is one acknowledged publish of one invocation that
\* carries the two fields of an event of that invocation's own webhook.
C23_ConcurrentInvocationsDoNotInterfere ==
    /\ BagOf(toProcess) = BagOf(AllOf([i \in ConcIds |-> RecvAlone(i)], MaxConcurrent))
    /\ BagOf(toSend) = BagOf(AllOf([i \in ProcIds |-> proc[i].published], MaxProc))
    /\ \A pos \in 1..Len(toProcess) :
         \E i \in ConcIds : \E n \in 1..Len(recv[i].issued) :
           /\ recv[i].issued[n].pos = pos
           /\ recv[i].issued[n].outcome = "ack"
           /\ n <= Len(BodyEvents(recv[i].body))
           /\ CarriesEvent(toProcess[pos], BodyEvents(recv[i].body)[n])
           /\ \A j \in ConcIds : \A m \in 1..Len(recv[j].issued) :
                recv[j].issued[m].pos = pos => (j = i /\ m = n)

\* two receive invocations with different webhooks were in their loops at the
\* same time and their messages lie interleaved on the topic, and two process
\* invocations delivered different messages are both about to download
C23_Witness ==
    /\ Len(toProcess) = 3
    /\ recv[1].body # recv[2].body
    /\ \E a, c \in 1..3 : \E b \in 1..3 :
         /\ a < b /\ b < c
         /\ \E i, j \in ConcIds :
              /\ i # j
              /\ \E n, m \in 1..Len(recv[i].issued) :
                   recv[i].issued[n].pos = a /\ recv[i].issued[m].pos = c
              /\ \E n \in 1..Len(recv[j].issued) : recv[j].issued[n].pos = b
    /\ proc[1].pc = "fetch" /\ proc[2].pc = "fetch"
    /\ proc[1].src # proc[2].src

(***************************************************************************)
(* The order of the publishes of one invocation.                           *)
(***************************************************************************)
\* the publishes of the invocation that the broker acknowledged
AckedIn(r) == {n \in 1..Len(r.issued) : r.issued[n].outcome = "ack"}

\* C24: in a receive invocation the n-th publish issued is that of the n-th
\* event of the envelope, a publish is issued only when every publish before it
\* was acknowledged, the acknowledged publishes are those of the first k events
\* (k the number of iterations completed), their messages lie on the topic in
\* the order of the events, and a step issues one publish at most.
C24_PublishesInEnvelopeOrder ==
    /\ [](\A i \in DOMAIN recv :
            LET r == recv[i]
                es == BodyEvents(r.body)
            IN  /\ Len(r.issued) <= Len(es)
                /\ \A n \in 1..Len(r.issued) : CarriesEvent(r.issued[n].data, es[n])
                /\ \A n \in 1..Len(r.issued) : \A m \in 1..(n - 1) : m \in AckedIn(r)
                /\ AckedIn(r) = 1..r.k
                /\ \A n, m \in AckedIn(r) :
                     /\ n < m => r.issued[n].pos < r.issued[m].pos
                     /\ toProcess[r.issued[n].pos] = r.issued[n].data)
    /\ [][\A i \in DOMAIN recv :
            \/ Len(recv'[i].issued) <= Len(recv[i].issued)
            \/ /\ Len(recv'[i].issued) = Len(recv[i].issued) + 1
               /\ recv'[i].k \in {recv[i].k, recv[i].k + 1}
               /\ Len(toProcess') <= Len(toProcess) + 1]_vars

\* two events of an envelope of three different ones are published and
\* acknowledged, the third is not issued yet
C24_Witness ==
    /\ recv[1].pc = "loop"
    /\ Len(recv[1].events) = 3
    /\ recv[1].k = 2 /\ Len(recv[1].issued) = 2
    /\ recv[1].events[1] # recv[1].events[2]
    /\ recv[1].events[2] # recv[1].events[3]
    /\ Len(recv[1].past) = 1 /\ Len(toProcess) > 2
====
